---- MODULE Spec2Model ----
(***************************************************************************)
(* TOTP engine of cf-worker-totp (utils.ts): generateTOTP,                 *)
(* generateTOTPWithT and verifyTOTP, with the HMAC and base32 steps they   *)
(* call.                                                                   *)
(*                                                                         *)
(* JavaScript numbers that can exceed 2^31 (the clock in milliseconds, the *)
(* time step T) are kept as 8 base-256 digits, most significant first, so  *)
(* that the 32-bit bitwise operators of the encoding loop act on them as   *)
(* they do in the language: ToInt32/ToUint32 keep the low 4 digits.        *)
(***************************************************************************)
EXTENDS Integers, Sequences, FiniteSets, TLC

\* ------------------------------------------------------------------ bounds
\* Largest finite verification window that is enumerated.
MaxWindow == 2

\* ------------------------------------------------------- program constants
DefaultPeriod == 30
DefaultDigits == 6
DefaultWindow == 1
\* Length in bytes of an HMAC-SHA-1 digest (hmacSha1 fixes 'SHA-1').
Sha1Len == 20

\* ------------------------------------------------- JavaScript number values
\* A number is [k, n]: k = "fin" with n its 8 base-256 digits, or "nan",
\* "ninf", "pinf"; k = "str" stands for a value whose typeof is not 'number'.
Zero64 == <<0, 0, 0, 0, 0, 0, 0, 0>>
Fin(n) == [k |-> "fin", n |-> n]
NaN == [k |-> "nan", n |-> Zero64]
NegInfinity == [k |-> "ninf", n |-> Zero64]
NotANumberType == [k |-> "str", n |-> Zero64]

\* n + d for a small integer d (d may be negative), digit by digit from the
\* least significant digit; n stays within 0 .. 2^64-1 in every use.
RECURSIVE AddAt(_, _, _)
AddAt(n, i, carry) ==
  IF i = 0 \/ carry = 0 THEN n
  ELSE LET v == n[i] + carry
           d == v % 256
       IN AddAt([n EXCEPT ![i] = d], i - 1, (v - d) \div 256)
NumAdd(n, d) == AddAt(n, 8, d)

\* floor(n / p) for an integer 0 < p < 2^23, by long division.
RECURSIVE DivFrom(_, _, _, _)
DivFrom(n, p, i, rem) ==
  IF i > 8 THEN <<>>
  ELSE LET cur == rem * 256 + n[i]
       IN <<cur \div p>> \o DivFrom(n, p, i + 1, cur % p)
FloorDiv(n, p) == DivFrom(n, p, 1, 0)

\* x & 0xFF: ToInt32(x) keeps the low 32 bits, of which the low byte is read;
\* NaN and the infinities convert to 0.
AndFF(x) == IF x.k = "fin" THEN x.n[8] ELSE 0

\* x >>> 8: ToUint32(x) drops everything above bit 31, then shifts right.
Ushr8(x) ==
  IF x.k = "fin" THEN Fin(<<0, 0, 0, 0, 0, x.n[5], x.n[6], x.n[7]>>)
  ELSE Fin(Zero64)

\* ------------------------------------------------- JavaScript string values
\* A string is [k |-> "str", s |-> its characters]; k = "other" stands for a
\* value whose typeof is not 'string' (undefined, null, a number).
Str(s) == [k |-> "str", s |-> s]
NotAString == [k |-> "other", s |-> <<>>]
\* !v || typeof v !== 'string'
EmptyOrNotString(v) == v.k # "str" \/ v.s = <<>>

DigitChars == <<"0", "1", "2", "3", "4", "5", "6", "7", "8", "9">>
\* Number.prototype.toString() of an integer 0 <= v < 2^31.
RECURSIVE NumToString(_)
NumToString(v) ==
  IF v < 10 THEN <<DigitChars[v + 1]>>
  ELSE NumToString(v \div 10) \o <<DigitChars[(v % 10) + 1]>>
\* Faulty variant: the padding is left out.
padStartOmitted(s, len) == s
\* String.prototype.padStart(len, '0')
RECURSIVE padStart(_, _)
padStart(s, len) == IF Len(s) >= len THEN s ELSE padStart(<<"0">> \o s, len)

\* Small numbers (period, digits, window) are [k, v, half]: the value v, or
\* v + 0.5 when half; k as for numbers above, plus "pinf" for Infinity.
Num(v) == [k |-> "fin", v |-> v, half |-> FALSE]
Frac(v) == [k |-> "fin", v |-> v, half |-> TRUE]
SmallNaN == [k |-> "nan", v |-> 0, half |-> FALSE]
SmallInf == [k |-> "pinf", v |-> 0, half |-> FALSE]
SmallNotNumber == [k |-> "str", v |-> 0, half |-> FALSE]
\* x <= 0 (false for NaN)
LeqZero(x) == x.k = "fin" /\ (IF x.half THEN x.v < 0 ELSE x.v <= 0)
\* Number.isInteger(x)
IsInteger(x) == x.k = "fin" /\ ~x.half

\* ------------------------------------------------------------ error values
\* An Error is its cause chain: the messages from the error itself down to
\* the innermost cause. new Error(m) has no cause.
Err(m) == <<m>>
NoErr == <<>>

\* ----------------------------------------------- base32Decode(s, 'RFC4648')
Base32Alphabet ==
  <<"A", "B", "C", "D", "E", "F", "G", "H", "I", "J", "K", "L", "M",
    "N", "O", "P", "Q", "R", "S", "T", "U", "V", "W", "X", "Y", "Z",
    "2", "3", "4", "5", "6", "7">>
\* alphabet.indexOf(c)
IndexOf(c) ==
  IF \E i \in 1..32 : Base32Alphabet[i] = c
  THEN (CHOOSE i \in 1..32 : Base32Alphabet[i] = c) - 1
  ELSE -1
\* input.replace(/=+$/, '')
RECURSIVE StripPadding(_)
StripPadding(s) ==
  IF s # <<>> /\ s[Len(s)] = "=" THEN StripPadding(SubSeq(s, 1, Len(s) - 1)) ELSE s
\* The decoding loop: 5 bits per character enter `value`, a byte leaves it
\* whenever 8 are available. Only the low `bits` bits of value are ever read
\* again, so value is kept modulo 2^bits. readChar throws on a character
\* that is not in the alphabet.
RECURSIVE DecodeFrom(_, _, _, _, _)
DecodeFrom(s, i, value, bits, output) ==
  IF i > Len(s) THEN output
  ELSE IF bits + 5 >= 8
  THEN DecodeFrom(s, i + 1, (value * 32 + IndexOf(s[i])) % (2 ^ (bits - 3)), bits - 3,
                  Append(output, ((value * 32 + IndexOf(s[i])) \div (2 ^ (bits - 3))) % 256))
  ELSE DecodeFrom(s, i + 1, value * 32 + IndexOf(s[i]), bits + 5, output)
base32Decode(input) ==
  LET s == StripPadding(input)
  IN IF \E i \in 1..Len(s) : IndexOf(s[i]) = -1
     THEN [threw |-> TRUE, bytes |-> <<>>]
     ELSE [threw |-> FALSE, bytes |-> DecodeFrom(s, 1, 0, 0, <<>>)]

\* ------------------------------------------------ crypto.subtle (HMAC-SHA-1)
\* HMAC-SHA-1 digests of the 8-byte counters that occur, per key.
\* Rows <<key, data, HMAC-SHA-1(key, data)>>.
HmacSha1Rows ==
  <<
     <<<<72, 101, 108, 108, 111, 33, 222, 173, 190, 239>>,
       <<0, 0, 0, 0, 0, 0, 0, 0>>,
       <<44, 216, 233, 4, 227, 149, 167, 65, 72, 119, 170, 47, 130, 97, 225, 36, 53, 114, 196, 53>>>>,
     <<<<72, 101, 108, 108, 111, 33, 222, 173, 190, 239>>,
       <<0, 0, 0, 0, 0, 0, 0, 1>>,
       <<133, 63, 121, 182, 101, 10, 158, 60, 90, 129, 241, 121, 162, 9, 37, 59, 203, 190, 116, 2>>>>,
     <<<<72, 101, 108, 108, 111, 33, 222, 173, 190, 239>>,
       <<0, 0, 0, 0, 3, 82, 177, 122>>,
       <<104, 123, 145, 119, 0, 45, 111, 3, 108, 230, 133, 92, 241, 107, 111, 232, 27, 210, 56, 244>>>>,
     <<<<72, 101, 108, 108, 111, 33, 222, 173, 190, 239>>,
       <<0, 0, 0, 0, 3, 82, 177, 123>>,
       <<94, 96, 134, 157, 50, 191, 211, 63, 26, 217, 174, 163, 213, 34, 45, 80, 134, 238, 61, 115>>>>,
     <<<<72, 101, 108, 108, 111, 33, 222, 173, 190, 239>>,
       <<0, 0, 0, 0, 3, 82, 177, 124>>,
       <<131, 138, 98, 154, 244, 239, 31, 114, 76, 255, 73, 138, 44, 38, 131, 220, 200, 49, 148, 141>>>>,
     <<<<72, 101, 108, 108, 111, 33, 222, 173, 190, 239>>,
       <<0, 0, 0, 0, 3, 82, 177, 125>>,
       <<236, 199, 146, 158, 62, 5, 126, 204, 205, 193, 107, 137, 66, 181, 97, 255, 161, 192, 154, 40>>>>,
     <<<<72, 101, 108, 108, 111, 33, 222, 173, 190, 239>>,
       <<0, 0, 0, 0, 3, 82, 177, 126>>,
       <<209, 131, 103, 201, 113, 144, 33, 135, 40, 95, 111, 114, 121, 54, 21, 123, 124, 191, 175, 241>>>>,
     <<<<72, 101, 108, 108, 111, 33, 222, 173, 190, 239>>,
       <<0, 0, 0, 0, 3, 82, 177, 127>>,
       <<44, 29, 154, 98, 140, 108, 232, 67, 96, 191, 187, 167, 19, 67, 167, 254, 225, 107, 146, 150>>>>,
     <<<<72, 101, 108, 108, 111, 33, 222, 173, 190, 239>>,
       <<0, 0, 0, 0, 3, 82, 177, 128>>,
       <<254, 7, 136, 115, 23, 212, 1, 208, 156, 35, 102, 216, 193, 180, 249, 81, 37, 63, 229, 232>>>>,
     <<<<72, 101, 108, 108, 111, 33, 222, 173, 190, 239>>,
       <<0, 0, 0, 0, 3, 82, 177, 129>>,
       <<6, 202, 225, 134, 72, 88, 13, 27, 145, 88, 116, 213, 164, 120, 112, 175, 195, 205, 26, 83>>>>,
     <<<<72, 101, 108, 108, 111, 33, 222, 173, 190, 239>>,
       <<0, 0, 0, 0, 3, 82, 177, 130>>,
       <<125, 8, 233, 254, 127, 99, 9, 48, 90, 247, 169, 65, 76, 174, 91, 127, 81, 174, 146, 42>>>>,
     <<<<72, 101, 108, 108, 111, 33, 222, 173, 190, 239>>,
       <<0, 0, 0, 0, 3, 82, 177, 131>>,
       <<228, 240, 154, 4, 96, 231, 240, 196, 235, 20, 115, 215, 43, 40, 86, 6, 206, 154, 229, 212>>>>,
     <<<<72, 101, 108, 108, 111, 33, 222, 173, 190, 239>>,
       <<0, 0, 0, 0, 3, 82, 177, 132>>,
       <<118, 17, 124, 248, 124, 17, 201, 133, 168, 141, 55, 241, 224, 114, 80, 207, 177, 101, 39, 142>>>>,
     <<<<72, 101, 108, 108, 111, 33, 222, 173, 190, 239>>,
       <<0, 0, 0, 0, 3, 82, 177, 133>>,
       <<142, 138, 52, 62, 115, 218, 170, 175, 44, 109, 100, 112, 117, 100, 31, 124, 132, 102, 63, 177>>>>,
     <<<<72, 101, 108, 108, 111, 33, 222, 173, 190, 239>>,
       <<0, 0, 0, 0, 3, 82, 177, 134>>,
       <<185, 101, 173, 235, 157, 253, 46, 121, 209, 173, 102, 6, 196, 60, 1, 248, 5, 155, 71, 196>>>>,
     <<<<72, 101, 108, 108, 111, 33, 222, 173, 190, 239>>,
       <<0, 0, 0, 0, 3, 82, 177, 135>>,
       <<91, 154, 163, 188, 191, 72, 217, 37, 204, 138, 203, 237, 17, 235, 10, 248, 93, 234, 37, 219>>>>,
     <<<<72, 101, 108, 108, 111, 33, 222, 173, 190, 239>>,
       <<0, 0, 0, 0, 3, 82, 177, 136>>,
       <<174, 194, 137, 159, 9, 213, 162, 224, 227, 195, 41, 108, 165, 9, 146, 196, 128, 254, 103, 46>>>>,
     <<<<72, 101, 108, 108, 111, 33, 222, 173, 190, 239>>,
       <<0, 0, 0, 0, 3, 82, 177, 137>>,
       <<118, 215, 0, 96, 250, 27, 86, 138, 180, 62, 189, 59, 236, 237, 18, 116, 0, 94, 73, 173>>>>,
     <<<<72, 101, 108, 108, 111, 33, 222, 173, 190, 239>>,
       <<0, 0, 0, 0, 1, 169, 88, 186>>,
       <<72, 135, 123, 73, 165, 130, 220, 168, 142, 69, 176, 179, 36, 105, 208, 132, 65, 165, 103, 145>>>>,
     <<<<72, 101, 108, 108, 111, 33, 222, 173, 190, 239>>,
       <<0, 0, 0, 0, 1, 169, 88, 187>>,
       <<212, 52, 168, 62, 221, 15, 180, 123, 48, 211, 104, 117, 161, 174, 38, 208, 22, 198, 16, 197>>>>,
     <<<<72, 101, 108, 108, 111, 33, 222, 173, 190, 239>>,
       <<0, 0, 0, 0, 1, 169, 88, 188>>,
       <<228, 98, 130, 121, 80, 231, 244, 43, 42, 160, 86, 245, 71, 209, 73, 203, 242, 207, 196, 151>>>>,
     <<<<72, 101, 108, 108, 111, 33, 222, 173, 190, 239>>,
       <<0, 0, 0, 0, 1, 169, 88, 189>>,
       <<221, 45, 110, 217, 161, 195, 117, 117, 195, 1, 225, 90, 195, 207, 94, 20, 132, 139, 1, 207>>>>,
     <<<<72, 101, 108, 108, 111, 33, 222, 173, 190, 239>>,
       <<0, 0, 0, 0, 1, 169, 88, 190>>,
       <<50, 236, 157, 176, 26, 20, 11, 251, 73, 42, 186, 89, 14, 211, 241, 117, 224, 152, 192, 131>>>>,
     <<<<72, 101, 108, 108, 111, 33, 222, 173, 190, 239>>,
       <<0, 0, 0, 0, 1, 169, 88, 191>>,
       <<197, 246, 187, 16, 97, 99, 57, 198, 152, 154, 22, 36, 206, 147, 192, 63, 187, 234, 234, 106>>>>,
     <<<<72, 101, 108, 108, 111, 33, 222, 173, 190, 239>>,
       <<0, 0, 0, 0, 1, 169, 88, 192>>,
       <<68, 88, 238, 66, 10, 239, 24, 210, 65, 35, 116, 253, 114, 174, 7, 143, 221, 195, 175, 47>>>>,
     <<<<72, 101, 108, 108, 111, 33, 222, 173, 190, 239>>,
       <<0, 0, 0, 0, 1, 169, 88, 193>>,
       <<234, 66, 187, 155, 217, 55, 179, 123, 146, 234, 21, 3, 255, 197, 242, 182, 195, 71, 20, 4>>>>,
     <<<<72, 101, 108, 108, 111, 33, 222, 173, 190, 239>>,
       <<0, 0, 0, 0, 1, 169, 88, 194>>,
       <<50, 123, 119, 146, 223, 251, 31, 172, 142, 181, 120, 181, 8, 146, 206, 196, 28, 81, 70, 107>>>>,
     <<<<72, 101, 108, 108, 111, 33, 222, 173, 190, 239>>,
       <<0, 0, 0, 0, 1, 169, 88, 195>>,
       <<148, 160, 11, 209, 223, 65, 50, 162, 153, 92, 53, 93, 125, 203, 112, 75, 147, 220, 176, 244>>>>,
     <<<<72, 101, 108, 108, 111, 33, 222, 173, 190, 239>>,
       <<0, 0, 0, 0, 1, 169, 88, 196>>,
       <<68, 228, 107, 66, 47, 160, 158, 44, 161, 78, 160, 82, 167, 238, 87, 190, 202, 33, 135, 159>>>>,
     <<<<72, 101, 108, 108, 111, 33, 222, 173, 190, 239>>,
       <<0, 0, 0, 0, 1, 169, 88, 197>>,
       <<191, 169, 255, 238, 2, 144, 60, 120, 228, 37, 30, 102, 86, 113, 165, 29, 117, 119, 87, 193>>>>,
     <<<<72, 101, 108, 108, 111, 33, 222, 173, 190, 239>>,
       <<0, 0, 0, 0, 1, 169, 88, 198>>,
       <<191, 39, 146, 23, 91, 5, 243, 160, 3, 149, 38, 78, 201, 232, 141, 2, 21, 236, 35, 151>>>>,
     <<<<72, 101, 108, 108, 111, 33, 222, 173, 190, 239>>,
       <<0, 0, 0, 0, 1, 169, 88, 199>>,
       <<191, 107, 142, 150, 255, 105, 195, 57, 144, 186, 64, 216, 122, 91, 55, 11, 83, 153, 3, 150>>>>,
     <<<<49, 50, 51, 52, 53, 54, 55, 56, 57, 48, 49, 50, 51, 52, 53, 54, 55, 56, 57, 48>>,
       <<0, 0, 0, 0, 0, 0, 0, 0>>,
       <<204, 147, 207, 24, 80, 141, 148, 147, 76, 100, 182, 93, 139, 167, 102, 127, 183, 205, 228, 176>>>>,
     <<<<49, 50, 51, 52, 53, 54, 55, 56, 57, 48, 49, 50, 51, 52, 53, 54, 55, 56, 57, 48>>,
       <<0, 0, 0, 0, 0, 0, 0, 1>>,
       <<117, 164, 138, 25, 212, 203, 225, 0, 100, 78, 138, 193, 57, 126, 234, 116, 122, 45, 51, 171>>>>,
     <<<<49, 50, 51, 52, 53, 54, 55, 56, 57, 48, 49, 50, 51, 52, 53, 54, 55, 56, 57, 48>>,
       <<0, 0, 0, 0, 3, 82, 177, 122>>,
       <<186, 126, 150, 56, 38, 254, 45, 212, 63, 97, 45, 141, 6, 44, 45, 238, 251, 3, 98, 246>>>>,
     <<<<49, 50, 51, 52, 53, 54, 55, 56, 57, 48, 49, 50, 51, 52, 53, 54, 55, 56, 57, 48>>,
       <<0, 0, 0, 0, 3, 82, 177, 123>>,
       <<239, 21, 82, 245, 25, 55, 33, 107, 237, 15, 183, 55, 32, 52, 128, 187, 242, 56, 11, 47>>>>,
     <<<<49, 50, 51, 52, 53, 54, 55, 56, 57, 48, 49, 50, 51, 52, 53, 54, 55, 56, 57, 48>>,
       <<0, 0, 0, 0, 3, 82, 177, 124>>,
       <<121, 130, 58, 120, 172, 80, 16, 76, 159, 241, 210, 39, 242, 22, 126, 7, 195, 46, 122, 182>>>>,
     <<<<49, 50, 51, 52, 53, 54, 55, 56, 57, 48, 49, 50, 51, 52, 53, 54, 55, 56, 57, 48>>,
       <<0, 0, 0, 0, 3, 82, 177, 125>>,
       <<46, 241, 75, 15, 84, 71, 108, 48, 53, 236, 123, 42, 247, 147, 56, 94, 190, 146, 153, 123>>>>,
     <<<<49, 50, 51, 52, 53, 54, 55, 56, 57, 48, 49, 50, 51, 52, 53, 54, 55, 56, 57, 48>>,
       <<0, 0, 0, 0, 3, 82, 177, 126>>,
       <<21, 108, 133, 178, 34, 141, 158, 11, 27, 44, 78, 204, 153, 172, 246, 10, 192, 24, 249, 15>>>>,
     <<<<49, 50, 51, 52, 53, 54, 55, 56, 57, 48, 49, 50, 51, 52, 53, 54, 55, 56, 57, 48>>,
       <<0, 0, 0, 0, 3, 82, 177, 127>>,
       <<131, 49, 0, 103, 241, 199, 195, 188, 39, 43, 21, 189, 101, 146, 241, 46, 201, 61, 6, 164>>>>,
     <<<<49, 50, 51, 52, 53, 54, 55, 56, 57, 48, 49, 50, 51, 52, 53, 54, 55, 56, 57, 48>>,
       <<0, 0, 0, 0, 3, 82, 177, 128>>,
       <<179, 202, 73, 108, 80, 248, 0, 183, 197, 132, 249, 152, 145, 133, 121, 176, 82, 187, 202, 167>>>>,
     <<<<49, 50, 51, 52, 53, 54, 55, 56, 57, 48, 49, 50, 51, 52, 53, 54, 55, 56, 57, 48>>,
       <<0, 0, 0, 0, 3, 82, 177, 129>>,
       <<163, 132, 37, 1, 71, 130, 118, 126, 137, 28, 142, 191, 13, 190, 193, 194, 10, 40, 184, 73>>>>,
     <<<<49, 50, 51, 52, 53, 54, 55, 56, 57, 48, 49, 50, 51, 52, 53, 54, 55, 56, 57, 48>>,
       <<0, 0, 0, 0, 3, 82, 177, 130>>,
       <<230, 115, 178, 79, 178, 123, 250, 24, 172, 70, 70, 242, 211, 180, 13, 14, 223, 195, 236, 22>>>>,
     <<<<49, 50, 51, 52, 53, 54, 55, 56, 57, 48, 49, 50, 51, 52, 53, 54, 55, 56, 57, 48>>,
       <<0, 0, 0, 0, 3, 82, 177, 131>>,
       <<213, 93, 29, 197, 37, 121, 117, 168, 149, 234, 16, 221, 193, 26, 30, 105, 65, 156, 249, 16>>>>,
     <<<<49, 50, 51, 52, 53, 54, 55, 56, 57, 48, 49, 50, 51, 52, 53, 54, 55, 56, 57, 48>>,
       <<0, 0, 0, 0, 3, 82, 177, 132>>,
       <<166, 164, 225, 40, 216, 177, 205, 170, 55, 219, 217, 41, 181, 203, 152, 245, 221, 38, 128, 9>>>>,
     <<<<49, 50, 51, 52, 53, 54, 55, 56, 57, 48, 49, 50, 51, 52, 53, 54, 55, 56, 57, 48>>,
       <<0, 0, 0, 0, 3, 82, 177, 133>>,
       <<32, 130, 214, 225, 53, 95, 241, 49, 202, 25, 19, 173, 202, 180, 62, 116, 133, 224, 101, 82>>>>,
     <<<<49, 50, 51, 52, 53, 54, 55, 56, 57, 48, 49, 50, 51, 52, 53, 54, 55, 56, 57, 48>>,
       <<0, 0, 0, 0, 3, 82, 177, 134>>,
       <<89, 186, 148, 210, 6, 32, 214, 26, 15, 212, 205, 224, 247, 110, 22, 121, 83, 49, 115, 121>>>>,
     <<<<49, 50, 51, 52, 53, 54, 55, 56, 57, 48, 49, 50, 51, 52, 53, 54, 55, 56, 57, 48>>,
       <<0, 0, 0, 0, 3, 82, 177, 135>>,
       <<244, 172, 63, 8, 152, 85, 187, 1, 56, 226, 160, 228, 121, 69, 54, 107, 131, 137, 250, 94>>>>,
     <<<<49, 50, 51, 52, 53, 54, 55, 56, 57, 48, 49, 50, 51, 52, 53, 54, 55, 56, 57, 48>>,
       <<0, 0, 0, 0, 3, 82, 177, 136>>,
       <<98, 96, 254, 133, 182, 225, 199, 187, 88, 211, 10, 99, 131, 219, 114, 182, 255, 170, 200, 94>>>>,
     <<<<49, 50, 51, 52, 53, 54, 55, 56, 57, 48, 49, 50, 51, 52, 53, 54, 55, 56, 57, 48>>,
       <<0, 0, 0, 0, 3, 82, 177, 137>>,
       <<110, 141, 59, 3, 74, 181, 185, 144, 82, 58, 255, 249, 26, 154, 32, 13, 248, 135, 172, 4>>>>,
     <<<<49, 50, 51, 52, 53, 54, 55, 56, 57, 48, 49, 50, 51, 52, 53, 54, 55, 56, 57, 48>>,
       <<0, 0, 0, 0, 1, 169, 88, 186>>,
       <<245, 233, 116, 114, 128, 34, 21, 136, 9, 16, 170, 35, 65, 91, 183, 48, 108, 244, 132, 194>>>>,
     <<<<49, 50, 51, 52, 53, 54, 55, 56, 57, 48, 49, 50, 51, 52, 53, 54, 55, 56, 57, 48>>,
       <<0, 0, 0, 0, 1, 169, 88, 187>>,
       <<143, 101, 235, 194, 195, 190, 120, 190, 191, 195, 84, 175, 78, 51, 232, 23, 13, 182, 249, 54>>>>,
     <<<<49, 50, 51, 52, 53, 54, 55, 56, 57, 48, 49, 50, 51, 52, 53, 54, 55, 56, 57, 48>>,
       <<0, 0, 0, 0, 1, 169, 88, 188>>,
       <<97, 34, 215, 100, 218, 220, 30, 174, 85, 223, 156, 78, 66, 93, 136, 128, 75, 220, 203, 61>>>>,
     <<<<49, 50, 51, 52, 53, 54, 55, 56, 57, 48, 49, 50, 51, 52, 53, 54, 55, 56, 57, 48>>,
       <<0, 0, 0, 0, 1, 169, 88, 189>>,
       <<51, 162, 87, 137, 204, 178, 31, 157, 48, 254, 167, 138, 212, 235, 204, 79, 1, 101, 106, 32>>>>,
     <<<<49, 50, 51, 52, 53, 54, 55, 56, 57, 48, 49, 50, 51, 52, 53, 54, 55, 56, 57, 48>>,
       <<0, 0, 0, 0, 1, 169, 88, 190>>,
       <<108, 127, 148, 186, 236, 111, 254, 17, 219, 34, 50, 124, 178, 237, 23, 65, 179, 131, 180, 167>>>>,
     <<<<49, 50, 51, 52, 53, 54, 55, 56, 57, 48, 49, 50, 51, 52, 53, 54, 55, 56, 57, 48>>,
       <<0, 0, 0, 0, 1, 169, 88, 191>>,
       <<4, 133, 217, 38, 3, 177, 249, 8, 255, 185, 35, 30, 194, 127, 62, 158, 228, 20, 249, 29>>>>,
     <<<<49, 50, 51, 52, 53, 54, 55, 56, 57, 48, 49, 50, 51, 52, 53, 54, 55, 56, 57, 48>>,
       <<0, 0, 0, 0, 1, 169, 88, 192>>,
       <<76, 173, 244, 251, 117, 169, 132, 66, 193, 192, 76, 118, 47, 197, 254, 186, 93, 78, 20, 64>>>>,
     <<<<49, 50, 51, 52, 53, 54, 55, 56, 57, 48, 49, 50, 51, 52, 53, 54, 55, 56, 57, 48>>,
       <<0, 0, 0, 0, 1, 169, 88, 193>>,
       <<73, 212, 81, 52, 174, 72, 100, 11, 57, 152, 13, 29, 43, 98, 33, 113, 213, 84, 151, 171>>>>,
     <<<<49, 50, 51, 52, 53, 54, 55, 56, 57, 48, 49, 50, 51, 52, 53, 54, 55, 56, 57, 48>>,
       <<0, 0, 0, 0, 1, 169, 88, 194>>,
       <<189, 128, 180, 93, 252, 253, 139, 198, 114, 93, 98, 196, 137, 243, 3, 171, 32, 26, 69, 15>>>>,
     <<<<49, 50, 51, 52, 53, 54, 55, 56, 57, 48, 49, 50, 51, 52, 53, 54, 55, 56, 57, 48>>,
       <<0, 0, 0, 0, 1, 169, 88, 195>>,
       <<251, 102, 127, 143, 80, 157, 36, 137, 24, 134, 28, 12, 175, 70, 226, 125, 204, 188, 102, 215>>>>,
     <<<<49, 50, 51, 52, 53, 54, 55, 56, 57, 48, 49, 50, 51, 52, 53, 54, 55, 56, 57, 48>>,
       <<0, 0, 0, 0, 1, 169, 88, 196>>,
       <<153, 57, 119, 193, 221, 180, 23, 192, 18, 86, 24, 91, 14, 65, 197, 174, 97, 58, 203, 157>>>>,
     <<<<49, 50, 51, 52, 53, 54, 55, 56, 57, 48, 49, 50, 51, 52, 53, 54, 55, 56, 57, 48>>,
       <<0, 0, 0, 0, 1, 169, 88, 197>>,
       <<31, 181, 192, 22, 203, 123, 249, 254, 164, 127, 140, 108, 246, 12, 237, 233, 234, 224, 204, 142>>>>,
     <<<<49, 50, 51, 52, 53, 54, 55, 56, 57, 48, 49, 50, 51, 52, 53, 54, 55, 56, 57, 48>>,
       <<0, 0, 0, 0, 1, 169, 88, 198>>,
       <<46, 44, 147, 103, 99, 202, 88, 206, 4, 181, 204, 136, 127, 156, 155, 32, 118, 49, 172, 2>>>>,
     <<<<49, 50, 51, 52, 53, 54, 55, 56, 57, 48, 49, 50, 51, 52, 53, 54, 55, 56, 57, 48>>,
       <<0, 0, 0, 0, 1, 169, 88, 199>>,
       <<177, 129, 105, 27, 74, 60, 178, 50, 108, 203, 241, 136, 39, 121, 128, 74, 158, 51, 227, 35>>>>
  >>
HmacSha1(key, data) ==
  LET i == CHOOSE j \in 1..Len(HmacSha1Rows) :
             HmacSha1Rows[j][1] = key /\ HmacSha1Rows[j][2] = data
  IN HmacSha1Rows[i][3]

\* What crypto.subtle.sign returns for (key, data): the first signLen bytes of
\* the digest. The platform returns all Sha1Len bytes; a stubbed hash returns
\* fewer.
Prefix(s, n) == SubSeq(s, 1, IF n < Len(s) THEN n ELSE Len(s))
subtleSign(key, data, signLen) == Prefix(HmacSha1(key, data), signLen)

\* generateHMAC: importKey rejects a zero-length key; every failure is logged
\* and replaced by a new Error.
generateHMAC(data, key, algorithm, signLen) ==
  IF Len(key) = 0
  THEN [kind |-> "throw", value |-> <<>>,
        error |-> Err("Failed to generate HMAC with algorithm " \o algorithm),
        logged |-> <<Err("Zero-length key is not supported")>>]
  ELSE [kind |-> "return", value |-> subtleSign(key, data, signLen),
        error |-> NoErr, logged |-> <<>>]

hmacSha1(key, data, signLen) == generateHMAC(data, key, "SHA-1", signLen)

\* ------------------------------------------------------- counter encoding
\* for (i = 7; i >= 0; i--) { TBytes[i] = tempT & 0xFF; tempT = tempT >>> 8 }
\* TBytes is 1-indexed here: TBytes[i + 1] is the code's TBytes[i].
RECURSIVE EncodeLoop(_, _, _)
EncodeLoop(tempT, i, TBytes) ==
  IF i < 0 THEN TBytes
  ELSE EncodeLoop(Ushr8(tempT), i - 1, [TBytes EXCEPT ![i + 1] = AndFF(tempT)])
EncodeT(T) == EncodeLoop(T, 7, Zero64)

\* ------------------------------------------------------ dynamic truncation
\* hmacArray[i] of a Uint8Array: undefined outside 0 .. length-1, and
\* undefined converts to 0 under & and |.
ByteAt(hmacArray, i) ==
  IF i >= 0 /\ i < Len(hmacArray) THEN hmacArray[i + 1] ELSE 0
\* (truncated << 8) | b on 32-bit signed integers.
Shl8Or(truncated, b) ==
  LET low == truncated % 16777216
  IN IF low >= 8388608 THEN (low - 16777216) * 256 + b ELSE low * 256 + b
RECURSIVE TruncLoop(_, _, _, _)
TruncLoop(hmacArray, offset, i, truncated) ==
  IF i >= 4 THEN truncated
  ELSE TruncLoop(hmacArray, offset, i + 1,
                 Shl8Or(truncated, ByteAt(hmacArray, offset + i)))
\* Faulty variant: the mask is 0x00FFFFFF.
And00FFFFFF(x) == x % 16777216
\* x & 0x7FFFFFFF
And7FFFFFFF(x) == IF x < 0 THEN (x + 1073741824) + 1073741824 ELSE x
\* x % (10 ** digits) for 0 <= x < 2^31: 10 ** digits exceeds x from 10 on.
ModPow10(x, digits) == IF digits >= 10 THEN x ELSE x % (10 ^ digits)

offsetOf(hmacArray) == ByteAt(hmacArray, Len(hmacArray) - 1) % 16
\* Faulty variant: the bound check is off by one.
OffsetInRangeLoose(hmacArray) == offsetOf(hmacArray) + 3 <= Len(hmacArray)
\* if (offset + 3 < hmacArray.length)
OffsetInRange(hmacArray) == offsetOf(hmacArray) + 3 < Len(hmacArray)
\* The indices of hmacArray that the truncation step reads.
TruncReads(hmacArray) ==
  {Len(hmacArray) - 1} \cup
  (IF OffsetInRange(hmacArray)
   THEN {offsetOf(hmacArray) + i : i \in 0..3} ELSE {})
\* Steps 5 and 6 of generation, once the bound check has passed.
otpOf(hmacArray, digits) ==
  LET truncated == TruncLoop(hmacArray, offsetOf(hmacArray), 0, 0)
      otp == ModPow10(And7FFFFFFF(truncated), digits.v)
  IN padStart(NumToString(otp), digits.v)

\* ------------------------------------------------------------- generation
\* What a call produced, and what it did on the way: kind "return" with the
\* code in value, or kind "throw" with the Error in error; logged are the
\* errors passed to console.error, outermost call last; TBytes the HMAC
\* message, mac the digest received, reads the digest indices read (empty
\* and -1-free when that point was not reached).
Outcome(kind, value, error, logged, TBytes, mac, reads) ==
  [kind |-> kind, value |-> value, error |-> error, logged |-> logged,
   TBytes |-> TBytes, mac |-> mac, reads |-> reads]
Throws(error, logged, TBytes, mac, reads) ==
  Outcome("throw", <<>>, error, logged, TBytes, mac, reads)

InvalidSecret == Err("Invalid secret: must be a non-empty string")
InvalidPeriod == Err("Invalid period: must be a positive number")
InvalidDigits == Err("Invalid digits: must be a positive integer")
InvalidT == Err("Invalid time step T: must be a number")
InvalidOTP == Err("Invalid OTP: must be a non-empty string")
InvalidCharacter == Err("Invalid character found")
TooSmall == Err("HMAC array too small for truncation")
FailedToGenerate == Err("Failed to generate TOTP")

\* typeof period !== 'number' || period <= 0
PeriodRejected(period) == period.k = "str" \/ LeqZero(period)
\* typeof digits !== 'number' || digits <= 0 || !Number.isInteger(digits)
DigitsRejected(digits) ==
  digits.k = "str" \/ LeqZero(digits) \/ ~IsInteger(digits)
\* typeof T !== 'number' || isNaN(T)
TRejected(T) == T.k = "str" \/ T.k = "nan"

\* Steps 3 to 6, shared by both generators: encode T, compute the HMAC,
\* truncate. secretBase32 has passed validation.
FromKeyAndT(secretBase32, T, digits, signLen) ==
  LET decoded == base32Decode(secretBase32.s)
      TBytes == EncodeT(T)
      hmac == hmacSha1(decoded.bytes, TBytes, signLen)
      hmacArray == hmac.value
  IN IF decoded.threw
     THEN Throws(InvalidCharacter, <<>>, <<>>, <<>>, {})
     ELSE IF hmac.kind = "throw"
     THEN Throws(hmac.error, hmac.logged, TBytes, <<>>, {})
     ELSE IF ~OffsetInRange(hmacArray)
     THEN Throws(TooSmall, <<>>, TBytes, hmacArray, TruncReads(hmacArray))
     ELSE Outcome("return", otpOf(hmacArray, digits), NoErr, <<>>,
                  TBytes, hmacArray, TruncReads(hmacArray))

\* Faulty variant: the caught error is thrown again as it is.
CatchAndRethrowSame(tried) ==
  IF tried.kind = "throw"
  THEN Throws(tried.error, Append(tried.logged, tried.error),
              tried.TBytes, tried.mac, tried.reads)
  ELSE tried
\* catch (error) { console.error(..., error); throw new Error('Failed to generate TOTP') }
CatchAndRethrow(tried) ==
  IF tried.kind = "throw"
  THEN Throws(FailedToGenerate, Append(tried.logged, tried.error),
              tried.TBytes, tried.mac, tried.reads)
  ELSE tried

\* Faulty variant: the lowest bit of the step is lost.
StepAtEven(ms, period) ==
  IF period.k = "fin"
  THEN Fin([FloorDiv(ms, period.v * 1000) EXCEPT ![8] = @ - (@ % 2)])
  ELSE NaN
\* Math.floor(ms / (period * 1000)) for a period that passed validation.
StepAt(ms, period) ==
  IF period.k = "fin" THEN Fin(FloorDiv(ms, period.v * 1000)) ELSE NaN

\* The try block of generateTOTPWithT.
WithTTry(secretBase32, T, period, digits, signLen) ==
  IF EmptyOrNotString(secretBase32) THEN Throws(InvalidSecret, <<>>, <<>>, <<>>, {})
  ELSE IF PeriodRejected(period) THEN Throws(InvalidPeriod, <<>>, <<>>, <<>>, {})
  ELSE IF DigitsRejected(digits) THEN Throws(InvalidDigits, <<>>, <<>>, <<>>, {})
  ELSE IF TRejected(T) THEN Throws(InvalidT, <<>>, <<>>, <<>>, {})
  ELSE FromKeyAndT(secretBase32, T, digits, signLen)

generateTOTPWithT(secretBase32, T, period, digits, signLen) ==
  CatchAndRethrow(WithTTry(secretBase32, T, period, digits, signLen))

\* The try block of generateTOTP; dateNow is what Date.now() returns.
TotpTry(secretBase32, period, digits, dateNow, signLen) ==
  IF EmptyOrNotString(secretBase32) THEN Throws(InvalidSecret, <<>>, <<>>, <<>>, {})
  ELSE IF PeriodRejected(period) THEN Throws(InvalidPeriod, <<>>, <<>>, <<>>, {})
  ELSE IF DigitsRejected(digits) THEN Throws(InvalidDigits, <<>>, <<>>, <<>>, {})
  ELSE FromKeyAndT(secretBase32, StepAt(dateNow, period), digits, signLen)

generateTOTP(secretBase32, period, digits, dateNow, signLen) ==
  CatchAndRethrow(TotpTry(secretBase32, period, digits, dateNow, signLen))

\* ------------------------------------------------------------ verification
\* -window
Negate(window) ==
  IF window.k = "fin" THEN Num(0 - window.v)
  ELSE IF window.k = "pinf" THEN [k |-> "ninf", v |-> 0, half |-> FALSE]
  ELSE window
\* Faulty variant: the loop stops one offset early (t < window).
LoopCondStrict(t, window) ==
  \/ t.k = "fin" /\ window.k = "fin" /\ t.v < window.v
  \/ t.k = "fin" /\ window.k = "pinf"
  \/ t.k = "ninf" /\ window.k \in {"fin", "pinf"}
\* Faulty variant: the loop runs one offset too far.
LoopCondWide(t, window) ==
  \/ t.k = "fin" /\ window.k = "fin" /\ t.v <= window.v + 1
  \/ t.k = "fin" /\ window.k = "pinf"
  \/ t.k = "ninf" /\ window.k \in {"fin", "pinf"}
\* t <= window
LoopCond(t, window) ==
  \/ t.k = "fin" /\ window.k = "fin" /\ t.v <= window.v
  \/ t.k = "fin" /\ window.k = "pinf"
  \/ t.k = "ninf" /\ window.k \in {"fin", "pinf"}
\* t++
Increment(t) == IF t.k = "fin" THEN Num(t.v + 1) ELSE t
\* currentT + t
PlusOffset(currentT, t) ==
  IF currentT.k = "nan" \/ t.k = "nan" THEN NaN
  ELSE IF t.k = "ninf" THEN NegInfinity
  ELSE Fin(NumAdd(currentT.n, t.v))

\* The validation at the head of verifyTOTP: the error it throws, or NoErr.
VerifyRejects(secretBase32, userInput, period, digits) ==
  IF EmptyOrNotString(secretBase32) THEN InvalidSecret
  ELSE IF PeriodRejected(period) THEN InvalidPeriod
  ELSE IF DigitsRejected(digits) THEN InvalidDigits
  ELSE IF EmptyOrNotString(userInput) THEN InvalidOTP
  ELSE NoErr

\* ------------------------------------------------------------------ inputs
Chars1 == <<"J", "B", "S", "W", "Y", "3", "D", "P", "E", "H", "P", "K", "3", "P", "X", "P">>
Chars2 == <<"G", "E", "Z", "D", "G", "N", "B", "V", "G", "Y", "3", "T", "Q", "O", "J", "Q",
            "G", "E", "Z", "D", "G", "N", "B", "V", "G", "Y", "3", "T", "Q", "O", "J", "Q">>
ValidSecrets == {Str(Chars1), Str(Chars2)}
Secrets ==
  ValidSecrets \cup
  {Str(<<>>), Str(<<"J", "B", "!", "W">>), Str(<<"A", "=">>), NotAString}

Periods == {Num(DefaultPeriod), Num(60), Num(0), SmallNaN, SmallNotNumber}
DigitsValues == {Num(1), Num(DefaultDigits), Num(8), Num(0), Frac(6), SmallNotNumber}
Windows ==
  {Num(w) : w \in 0..MaxWindow} \cup {Num(DefaultWindow), Num(-1), SmallNaN, SmallInf}

\* Date.now() values: 2023-01-01T00:00:00Z, then 29 s, 30 s and 60 s later.
Clocks ==
  << <<0, 0, 1, 133, 106, 160, 200, 0>>, <<0, 0, 1, 133, 106, 161, 57, 72>>,
     <<0, 0, 1, 133, 106, 161, 61, 48>>, <<0, 0, 1, 133, 106, 161, 178, 96>> >>

\* Steps handed to generateTOTPWithT directly: 0, 1, 2^32, 2^32 + 1, the step
\* of the first clock value at period 30, its successor, and that step + 2^32.
StepValues ==
  {Fin(Zero64), Fin(<<0, 0, 0, 0, 0, 0, 0, 1>>),
   Fin(<<0, 0, 0, 1, 0, 0, 0, 0>>), Fin(<<0, 0, 0, 1, 0, 0, 0, 1>>),
   Fin(<<0, 0, 0, 0, 3, 82, 177, 128>>), Fin(<<0, 0, 0, 0, 3, 82, 177, 129>>),
   Fin(<<0, 0, 0, 1, 3, 82, 177, 128>>)}
Steps == StepValues \cup {NaN, NegInfinity, NotANumberType}

\* Codes a user may submit: the code of a step from 2 before to 4 after the
\* step of the first clock value (as an authenticator computes it, from the
\* full digest), and strings that are no code.
CandidateCodes(secretBase32, period, digits) ==
  IF secretBase32 \in ValidSecrets /\ period.k = "fin" /\ period.v > 0
     /\ ~DigitsRejected(digits)
  THEN {Str(generateTOTPWithT(secretBase32,
                              PlusOffset(StepAt(Clocks[1], period), Num(d)),
                              period, digits, Sha1Len).value) : d \in -2..4}
  ELSE {}
UserInputs(secretBase32, period, digits) ==
  CandidateCodes(secretBase32, period, digits) \cup
  {Str(<<"0", "0", "0", "0", "0", "0">>), Str(<<>>), NotAString}

\* ------------------------------------------------------------------- state
VARIABLES
  clk,          \* Date.now() is Clocks[clk]
  signLen,      \* number of digest bytes crypto.subtle.sign returns
  pc,           \* "idle", "call" / "await" (inside verifyTOTP's loop), "done"
  call,         \* the call in progress or last completed, with its arguments
  currentTime,  \* verifyTOTP's locals
  currentT,
  t,
  pending,      \* the generateTOTPWithT outcome verifyTOTP is awaiting
  result,       \* outcome of the last generateTOTP / generateTOTPWithT call
  verdict,      \* what the last verifyTOTP call returned, and what it logged
  clockReads,   \* Date.now() calls made by the current top-level call
  hmacCalls     \* hmacSha1 calls made by the current top-level call

\* The truncation step on its own (a digest handed to it directly).
VARIABLES
  tMac,         \* the digest
  tDigits,      \* the digits argument
  tOtp          \* what truncation produced: <<>> before it ran, else <<kind, code>>

\* The two ways of computing the step of an offset, on their own.
VARIABLES
  stepIn,       \* [currentTime, period, t]
  stepOut       \* <<>> before the computation, else [current, earlier]

\* Concurrent generateTOTPWithT calls, one per slot, advancing await by await.
VARIABLES
  procs         \* slot -> [pc, args, key, TBytes, hmacArray, result]

\* A getKV call.
VARIABLES
  kv            \* [pc, key, binding, read, timer, race, outcome, logged, unhandled]
\* A request to one of the routes.
VARIABLES
  http          \* [pc, route, body, now, response]

totpVars ==
  <<clk, signLen, pc, call, currentTime, currentT, t, pending, result, verdict,
    clockReads, hmacCalls>>
truncVars == <<tMac, tDigits, tOtp>>
stepVars == <<stepIn, stepOut>>
NoOutcome == Outcome("none", <<>>, NoErr, <<>>, <<>>, <<>>, {})
NumProcs == 2
NoArgs == <<>>
IdleProc ==
  [pc |-> "idle", args |-> NoArgs, key |-> <<>>, TBytes |-> <<>>, hmacArray |-> <<>>,
   result |-> NoOutcome]
\* A promise: state "none" (not created), "pending", "fulfilled" or "rejected",
\* and the value or reason it settled with.
Promise(state, value) == [state |-> state, value |-> value]
NoPromise == Promise("none", <<>>)
Pending == Promise("pending", <<>>)
NoResult == [kind |-> "none", value |-> <<>>]
IdleKV ==
  [pc |-> "idle", key |-> <<>>, binding |-> "none", read |-> NoPromise,
   timer |-> "unset", race |-> NoPromise, outcome |-> NoResult, logged |-> <<>>,
   unhandled |-> FALSE]
NoBody == [json |-> "none", opt |-> <<>>]
NoResponse == [status |-> 0, body |-> <<>>]
IdleHttp == [pc |-> "idle", route |-> "none", body |-> NoBody, now |-> 0, response |-> NoResponse]
otherVars == <<truncVars, stepVars, procs, kv, http>>
vars == <<totpVars, otherVars>>

TruncIdle == tMac = <<>> /\ tDigits = 0 /\ tOtp = <<>>
StepsIdle == stepIn = <<>> /\ stepOut = <<>>
ProcsIdle == procs = [p \in 1..NumProcs |-> IdleProc]
KVIdle == kv = IdleKV
HttpIdle == http = IdleHttp
OthersIdle == TruncIdle /\ StepsIdle /\ ProcsIdle /\ KVIdle /\ HttpIdle

NoVerdict == [kind |-> "none", value |-> FALSE, logged |-> <<>>]
Returned(b, logged) == [kind |-> "return", value |-> b, logged |-> logged]

Call(op, secretBase32, T, userInput, period, digits, window, dateNow) ==
  [op |-> op, secretBase32 |-> secretBase32, T |-> T, userInput |-> userInput,
   period |-> period, digits |-> digits, window |-> window, dateNow |-> dateNow]

NoCall == Call("none", NotAString, NaN, NotAString, SmallNaN, SmallNaN, SmallNaN, Zero64)

\* No TOTP call in progress.
TotpIdle(n) ==
  /\ clk = 1
  /\ signLen = n
  /\ pc = "idle"
  /\ call = NoCall
  /\ currentTime = Zero64
  /\ currentT = NaN
  /\ t = SmallNaN
  /\ pending = NoOutcome
  /\ result = NoOutcome
  /\ verdict = NoVerdict
  /\ clockReads = 0
  /\ hmacCalls = 0

InitWith(n) == TotpIdle(n) /\ OthersIdle

\* The platform's HMAC-SHA-1.
Init == InitWith(Sha1Len)

\* What a generation call did besides computing: Date.now() (generateTOTP only)
\* and hmacSha1 are reached exactly when TBytes was built.
ClockReadsOf(outcome) == IF outcome.TBytes # <<>> THEN 1 ELSE 0
HmacCallsOf(outcome) == IF outcome.TBytes # <<>> THEN 1 ELSE 0
\* The counter of hmacSha1 calls stops counting at MaxHmacCalls.
MaxHmacCalls == 2 * MaxWindow + 2
CountUp(n, d) == IF n + d > MaxHmacCalls THEN MaxHmacCalls ELSE n + d

\* Faulty variant: the step is computed again from the clock at each offset.
CheckedStepFromClock == PlusOffset(StepAt(Clocks[clk], call.period), t)
\* const T = currentT + t
CheckedStep == PlusOffset(currentT, t)

\* Time passes: between calls, and while verifyTOTP is suspended on an await.
Tick ==
  /\ pc # "done"
  /\ clk < Len(Clocks)
  /\ clk' = clk + 1
  /\ UNCHANGED <<signLen, pc, call, currentTime, currentT, t, pending, result, verdict>>
  /\ UNCHANGED <<clockReads, hmacCalls>>
  /\ UNCHANGED otherVars

CanStart == pc = "idle"

CallGenerateTOTP ==
  /\ CanStart
  /\ \E s \in Secrets, p \in Periods, d \in DigitsValues :
       /\ call' = Call("generateTOTP", s, NaN, NotAString, p, d, SmallNaN, Clocks[clk])
       /\ result' = generateTOTP(s, p, d, Clocks[clk], signLen)
  /\ clockReads' = ClockReadsOf(result')
  /\ hmacCalls' = HmacCallsOf(result')
  /\ pc' = "done"
  /\ verdict' = NoVerdict
  /\ currentTime' = Zero64
  /\ currentT' = NaN
  /\ t' = SmallNaN
  /\ pending' = NoOutcome
  /\ UNCHANGED <<clk, signLen>>
  /\ UNCHANGED otherVars

CallGenerateTOTPWithT ==
  /\ CanStart
  /\ \E s \in Secrets, T \in Steps, p \in Periods, d \in DigitsValues :
       /\ call' = Call("generateTOTPWithT", s, T, NotAString, p, d, SmallNaN, Clocks[clk])
       /\ result' = generateTOTPWithT(s, T, p, d, signLen)
  /\ clockReads' = 0
  /\ hmacCalls' = HmacCallsOf(result')
  /\ pc' = "done"
  /\ verdict' = NoVerdict
  /\ currentTime' = Zero64
  /\ currentT' = NaN
  /\ t' = SmallNaN
  /\ pending' = NoOutcome
  /\ UNCHANGED <<clk, signLen>>
  /\ UNCHANGED otherVars

\* verifyTOTP up to its first await: validation, the clock read, the loop
\* initialisation and its first test.
VerifyStart ==
  /\ CanStart
  /\ \E s \in Secrets, p \in Periods, d \in DigitsValues, w \in Windows :
     \E u \in UserInputs(s, p, d) :
       LET rejected == VerifyRejects(s, u, p, d)
       IN /\ call' = Call("verifyTOTP", s, NaN, u, p, d, w, Clocks[clk])
          /\ IF rejected # NoErr
             THEN /\ pc' = "done"
                  /\ verdict' = Returned(FALSE, <<rejected>>)
                  /\ currentTime' = Zero64
                  /\ currentT' = NaN
                  /\ t' = SmallNaN
                  /\ clockReads' = 0
             ELSE /\ currentTime' = Clocks[clk]
                  /\ clockReads' = 1
                  /\ currentT' = StepAt(Clocks[clk], p)
                  /\ t' = Negate(w)
                  /\ IF LoopCond(Negate(w), w)
                     THEN pc' = "call" /\ verdict' = NoVerdict
                     ELSE pc' = "done" /\ verdict' = Returned(FALSE, <<>>)
  /\ result' = NoOutcome
  /\ pending' = NoOutcome
  /\ hmacCalls' = 0
  /\ UNCHANGED <<clk, signLen>>
  /\ UNCHANGED otherVars

\* const T = currentT + t; generateTOTPWithT(secretBase32, T, period, digits)
\* runs up to the HMAC it awaits.
VerifyCall ==
  /\ pc = "call"
  /\ pending' = generateTOTPWithT(call.secretBase32, CheckedStep,
                                  call.period, call.digits, signLen)
  /\ hmacCalls' = CountUp(hmacCalls, HmacCallsOf(pending'))
  /\ pc' = "await"
  /\ UNCHANGED <<clk, signLen, call, currentTime, currentT, t, result, verdict>>
  /\ UNCHANGED clockReads
  /\ UNCHANGED otherVars

\* The awaited call settles: a throw reaches verifyTOTP's catch, a code is
\* compared with userInput, and otherwise the loop goes on with t++.
VerifyResume ==
  /\ pc = "await"
  /\ IF pending.kind = "throw"
     THEN /\ pc' = "done"
          /\ verdict' = Returned(FALSE, Append(pending.logged, pending.error))
          /\ t' = t
     ELSE IF pending.value = call.userInput.s
     THEN /\ pc' = "done"
          /\ verdict' = Returned(TRUE, <<>>)
          /\ t' = t
     ELSE /\ t' = Increment(t)
          /\ IF LoopCond(Increment(t), call.window)
             THEN pc' = "call" /\ verdict' = NoVerdict
             ELSE pc' = "done" /\ verdict' = Returned(FALSE, <<>>)
  /\ pending' = NoOutcome
  /\ UNCHANGED <<clk, signLen, call, currentTime, currentT, result>>
  /\ UNCHANGED <<clockReads, hmacCalls>>
  /\ UNCHANGED otherVars

\* The caller takes the result; the next call can begin.
Return ==
  /\ pc = "done"
  /\ pc' = "idle"
  /\ call' = NoCall
  /\ result' = NoOutcome
  /\ verdict' = NoVerdict
  /\ currentTime' = Zero64
  /\ currentT' = NaN
  /\ t' = SmallNaN
  /\ pending' = NoOutcome
  /\ clockReads' = 0
  /\ hmacCalls' = 0
  /\ UNCHANGED <<clk, signLen>>
  /\ UNCHANGED otherVars

Next ==
  \/ Tick
  \/ Return
  \/ CallGenerateTOTP
  \/ CallGenerateTOTPWithT
  \/ VerifyStart
  \/ VerifyCall
  \/ VerifyResume

Spec == Init /\ [][Next]_vars

\* A stubbed hash: sign returns a digest cut to one of these lengths (or the
\* platform's full digest).
StubLens == {0, 10, 18}
InitStub == \E n \in StubLens \cup {Sha1Len} : InitWith(n)
SpecStub == InitStub /\ [][Next]_vars

\* An awaited HMAC settles and the continuation of verifyTOTP runs: a
\* verifyTOTP call inside its loop takes its next step (VerifyCall from "call",
\* VerifyResume from "await"; no other step of Next changes pc there).
VerifyProceeds ==
  /\ pc \in {"call", "await"}
  /\ pc' \in {"call", "await", "done"}
  /\ pc' # pc
FairSpec == Spec /\ WF_pc(VerifyProceeds)

\* ------------------------------------------------------------------ claims
\* Vocabulary of the claims.
Done(op) == pc = "done" /\ call.op = op
GenerationDone == Done("generateTOTP") \/ Done("generateTOTPWithT")
\* A secret that is a non-empty string and decodes to non-empty key bytes.
SecretIsValid(secretBase32) ==
  /\ secretBase32.k = "str" /\ secretBase32.s # <<>>
  /\ ~base32Decode(secretBase32.s).threw
  /\ base32Decode(secretBase32.s).bytes # <<>>
PositiveNumber(x) == x.k = "fin" /\ (x.v > 0 \/ (x.v = 0 /\ x.half))
PositiveInteger(x) == x.k = "fin" /\ x.v > 0 /\ ~x.half
NonNegativeInteger(x) == x.k = "fin" /\ x.v >= 0 /\ ~x.half
\* The step of the clock value a verifyTOTP call read (valid period).
StepRead == Fin(FloorDiv(call.dateNow, call.period.v * 1000))
\* The code of step StepRead + d for the call's secret, period and digits.
CodeAtOffset(d) ==
  generateTOTPWithT(call.secretBase32, PlusOffset(StepRead, Num(d)),
                    call.period, call.digits, signLen)
\* userInput is the code of step StepRead + d.
MatchesOffset(d) ==
  CodeAtOffset(d).kind = "return" /\ call.userInput = Str(CodeAtOffset(d).value)
ValidVerifyConfig ==
  /\ SecretIsValid(call.secretBase32)
  /\ PositiveNumber(call.period)
  /\ PositiveInteger(call.digits)

\* C1: with a valid secret, a positive period, positive integer digits and a
\* non-negative integer window, a verifyTOTP call whose clock read falls in
\* step C returns true for a candidate that is the code of some step S with
\* |S - C| <= window.
C1_AcceptanceWindow ==
  (/\ Done("verifyTOTP")
   /\ ValidVerifyConfig
   /\ NonNegativeInteger(call.window)
   /\ \E d \in (0 - call.window.v)..call.window.v : MatchesOffset(d))
  => (verdict.kind = "return" /\ verdict.value = TRUE)

\* A call with window 2 accepted the code of a step exactly two steps away
\* from the current one, which is the code of no nearer step.
C1_Witness ==
  /\ Done("verifyTOTP")
  /\ ValidVerifyConfig
  /\ call.window = Num(2)
  /\ \E d \in {-2, 2} : MatchesOffset(d)
  /\ \A d \in -1..1 : ~MatchesOffset(d)
  /\ verdict.value = TRUE

\* C2: verifyTOTP returns false whenever the candidate is not the code of any
\* step in [currentStep - window, currentStep + window]: a call that returned
\* true had a finite non-negative window, or an infinite one, and in the
\* finite case the candidate is the code of a step of the window.
C2_Rejection ==
  (Done("verifyTOTP") /\ verdict.value = TRUE)
  => /\ ValidVerifyConfig
     /\ call.window.k \in {"fin", "pinf"}
     /\ call.window.k = "fin" =>
          \E d \in (0 - call.window.v)..call.window.v : MatchesOffset(d)

\* A call with window 1 rejected a candidate that is the code of a step two
\* steps away and of no step of the window.
C2_Witness ==
  /\ Done("verifyTOTP")
  /\ ValidVerifyConfig
  /\ call.window = Num(1)
  /\ \E d \in {-2, 2} : MatchesOffset(d)
  /\ \A d \in -1..1 : ~MatchesOffset(d)
  /\ verdict.kind = "return" /\ verdict.value = FALSE

\* C3: every verifyTOTP call, whatever its inputs, completes (with a boolean,
\* never an exception).
C3_VerifyCompletes ==
  (call.op = "verifyTOTP" /\ pc \in {"call", "await"})
    ~> (pc = "done" /\ verdict.kind = "return")

DecimalDigits == {DigitChars[i] : i \in 1..10}

\* C4: a successful generateTOTP or generateTOTPWithT returns exactly `digits`
\* characters, all decimal digits (so a value in [0, 10^digits), padded with
\* '0' on the left).
C4_Format ==
  (GenerationDone /\ result.kind = "return" /\ PositiveInteger(call.digits))
  => /\ Len(result.value) = call.digits.v
     /\ \A i \in 1..Len(result.value) : result.value[i] \in DecimalDigits

\* A generated 6-digit code that needed padding: it starts with '0'.
C4_Witness ==
  /\ GenerationDone
  /\ result.kind = "return"
  /\ call.digits = Num(6)
  /\ result.value[1] = "0"

\* The step the claim derives from a clock value: floor(t / (period * 1000)),
\* which is NaN for a NaN period. (For a period that is rejected both
\* generators fail before T is looked at.)
ClaimedStep(ms, period) ==
  IF PositiveNumber(period) THEN Fin(FloorDiv(ms, period.v * 1000)) ELSE NaN

\* C5: for every secret, period and digits, generateTOTP at clock value t
\* returns exactly what generateTOTPWithT returns for T = floor(t / (period*1000)).
C5_TimeOnlyThroughStep ==
  Done("generateTOTP")
  => LET viaStep == generateTOTPWithT(call.secretBase32,
                                      ClaimedStep(call.dateNow, call.period),
                                      call.period, call.digits, signLen)
     IN result.kind = viaStep.kind /\ result.value = viaStep.value

\* C6 as claimed: for a fixed secret, period and digits, the codes generated
\* at two clock values of different steps are different.
C6_DifferentStepsDiffer ==
  (Done("generateTOTP") /\ result.kind = "return" /\ PositiveNumber(call.period))
  => \A c \in 1..Len(Clocks) :
       ClaimedStep(Clocks[c], call.period) # ClaimedStep(call.dateNow, call.period)
       => generateTOTP(call.secretBase32, call.period, call.digits,
                       Clocks[c], signLen).value # result.value

\* C6 as amended: with the secret JBSWY3DPEHPK3PXP, period 30 and 6 digits,
\* the code generated at 2023-01-01T00:00:00Z differs from the code generated
\* 30 s later.
C6_BoundaryOfTheTest ==
  (/\ Done("generateTOTP")
   /\ call.secretBase32 = Str(Chars1)
   /\ call.period = Num(DefaultPeriod)
   /\ call.digits = Num(DefaultDigits)
   /\ call.dateNow = Clocks[1])
  => /\ result.kind = "return"
     /\ generateTOTP(call.secretBase32, call.period, call.digits,
                     Clocks[3], signLen).kind = "return"
     /\ generateTOTP(call.secretBase32, call.period, call.digits,
                     Clocks[3], signLen).value # result.value

C6_Witness ==
  /\ Done("generateTOTP")
  /\ call.secretBase32 = Str(Chars1)
  /\ call.period = Num(DefaultPeriod)
  /\ call.digits = Num(DefaultDigits)
  /\ call.dateNow = Clocks[1]
  /\ result.value = <<"0", "8", "2", "1", "3", "6">>

\* C7: generateTOTP and generateTOTPWithT fail, and return no code, whenever
\* the secret is empty, not a string or does not decode to non-empty key
\* bytes, whenever period is not a positive number, whenever digits is not a
\* positive integer, and (generateTOTPWithT) whenever T is non-numeric or NaN.
C7_InputValidation ==
  (/\ GenerationDone
   /\ \/ ~SecretIsValid(call.secretBase32)
      \/ ~PositiveNumber(call.period)
      \/ ~PositiveInteger(call.digits)
      \/ (call.op = "generateTOTPWithT" /\ call.T.k \in {"str", "nan"}))
  => (result.kind = "throw" /\ result.value = <<>>)

\* The original failure of a generation call that threw: the error its catch
\* block received (and logged).
CaughtError == result.logged[Len(result.logged)]
\* The failures generation detects, stated on the call's arguments and on the
\* digest it received.
DetectedFailure ==
  \/ ~SecretIsValid(call.secretBase32)
  \/ PeriodRejected(call.period)
  \/ ~PositiveInteger(call.digits)
  \/ (call.op = "generateTOTPWithT" /\ call.T.k \in {"str", "nan"})
  \/ (ByteAt(result.mac, Len(result.mac) - 1) % 16) + 4 > Len(result.mac)
OriginalFailures ==
  {InvalidSecret, InvalidPeriod, InvalidDigits, InvalidT, InvalidCharacter,
   TooSmall, Err("Failed to generate HMAC with algorithm SHA-1")}

StepOfCall ==
  IF call.op = "generateTOTP" THEN StepAt(call.dateNow, call.period) ELSE call.T

\* C9: for every step T of the unsigned 64-bit range, the 8 bytes passed to
\* the HMAC are the big-endian encoding of T (no truncation to 32 bits).
C9_CounterEncoding ==
  (GenerationDone /\ result.TBytes # <<>> /\ StepOfCall.k = "fin")
  => result.TBytes = StepOfCall.n

TruncBytes == {0, 127, 128, 255}
MacWith(offset, b, high) ==
  [i \in 1..Sha1Len |->
     IF i = Sha1Len THEN high * 16 + offset
     ELSE IF i - 1 >= offset /\ i - 1 <= offset + 3 THEN b[i - offset]
     ELSE 0]
TruncMacs ==
  {MacWith(o, b, h) : o \in 0..15, b \in TruncBytes \X TruncBytes \X TruncBytes \X TruncBytes,
                      h \in {0, 15}}
TruncDigits == {1, DefaultDigits, 8}

InitTrunc ==
  /\ TotpIdle(Sha1Len)
  /\ tMac \in TruncMacs
  /\ tDigits \in TruncDigits
  /\ tOtp = <<>>
  /\ StepsIdle
  /\ ProcsIdle
  /\ KVIdle
  /\ HttpIdle

\* const offset = ...; if (offset + 3 < hmacArray.length) { ... } else throw;
\* const otp = ...; return otp.toString().padStart(digits, '0')
Truncate ==
  /\ tOtp = <<>>
  /\ tOtp' = IF OffsetInRange(tMac)
             THEN <<"return", otpOf(tMac, Num(tDigits))>>
             ELSE <<"throw", TooSmall>>
  /\ UNCHANGED <<tMac, tDigits, totpVars, stepVars, procs, kv, http>>

NextTrunc == Truncate
SpecTrunc == InitTrunc /\ [][NextTrunc]_vars

\* The number a string of decimal digits denotes.
RECURSIVE DecimalValue(_)
DecimalValue(s) ==
  IF s = <<>> THEN 0
  ELSE DecimalValue(SubSeq(s, 1, Len(s) - 1)) * 10
       + (CHOOSE d \in 0..9 : DigitChars[d + 1] = s[Len(s)])
\* The big-endian unsigned 32-bit integer formed from mac[offset..offset+4),
\* top bit cleared.
Masked31(mac, offset) ==
  (mac[offset + 1] % 128) * 16777216 + mac[offset + 2] * 65536
  + mac[offset + 3] * 256 + mac[offset + 4]

\* C11: the value the shift-and-or loop and `& 0x7FFFFFFF` compute is the
\* big-endian unsigned 32-bit integer formed from mac[offset..offset+4) with
\* its top bit cleared, whatever the signed overflow of the shifts, and the
\* returned code is that value mod 10^digits.
C11_TruncationArithmetic ==
  tOtp # <<>>
  => LET offset == tMac[Len(tMac)] % 16
     IN /\ And7FFFFFFF(TruncLoop(tMac, offset, 0, 0)) = Masked31(tMac, offset)
        /\ tOtp[1] = "return"
        /\ DecimalValue(tOtp[2]) = Masked31(tMac, offset) % (10 ^ tDigits)

\* A truncation whose first selected byte has its top bit set (the last shift
\* overflows into the sign bit) and whose offset is the largest one.
C11_Witness ==
  /\ tOtp # <<>>
  /\ tMac[Len(tMac)] % 16 = 15
  /\ tMac[16] = 255
  /\ tMac[17] = 128
  /\ tOtp[1] = "return"

\* ------------------------------------------------- clock reads and work
\* The step of the clock value now, had the call read the clock again.
StepNow == StepAt(Clocks[clk], call.period)

\* C13: a top-level generateTOTP or verifyTOTP call reads the clock at most
\* once, and every step verifyTOTP checks is the step of that one read plus
\* the offset, also when the clock has moved on while the loop was suspended.
C13_SingleClockRead ==
  /\ clockReads <= 1
  /\ (Done("generateTOTP") /\ result.TBytes # <<>>)
     => result.TBytes = EncodeT(StepAt(call.dateNow, call.period))
  /\ (call.op = "verifyTOTP" /\ pc = "await" /\ pending.TBytes # <<>>)
     => /\ clockReads = 1
        /\ currentTime = call.dateNow
        /\ pending.TBytes = EncodeT(PlusOffset(StepAt(call.dateNow, call.period), t))

\* A verifyTOTP call suspended on the HMAC of a later offset after the clock
\* crossed a step boundary: the step checked is not the one a second clock
\* read would give.
C13_Witness ==
  /\ call.op = "verifyTOTP"
  /\ pc = "await"
  /\ pending.kind = "return"
  /\ t = Num(1)
  /\ StepNow # StepAt(call.dateNow, call.period)
  /\ pending.TBytes # EncodeT(PlusOffset(StepNow, t))

\* 2 * window + 1 for a window the loop runs with; a negative or NaN window
\* allows no HMAC computation, an infinite one any number.
WorkBound(window) ==
  IF window.k = "pinf" THEN MaxHmacCalls
  ELSE IF NonNegativeInteger(window) THEN 2 * window.v + 1
  ELSE 0
\* The part of C14 about the amount of work.
WorkIsBounded ==
  /\ call.op \in {"generateTOTP", "generateTOTPWithT"} => hmacCalls <= 1
  /\ call.op = "verifyTOTP" => hmacCalls <= WorkBound(call.window)

\* C14: every verifyTOTP call terminates, after at most 2 * window + 1 HMAC
\* computations, and every generateTOTP / generateTOTPWithT call after at
\* most one.
C14_BoundedWork ==
  /\ []WorkIsBounded
  /\ (call.op = "verifyTOTP" /\ pc \in {"call", "await"}) ~> (pc = "done")

\* -------------------------------------------------------- iteration order
\* The code generation produces for offset d of the call in progress.
CodeAt(d) ==
  generateTOTPWithT(call.secretBase32,
                    PlusOffset(StepAt(call.dateNow, call.period), Num(d)),
                    call.period, call.digits, signLen)
\* What the loop of verifyTOTP returns when it visits the offsets in the
\* given order: false at the first offset whose generation fails, true at the
\* first offset whose code is the candidate, false when the offsets run out.
RECURSIVE VerdictInOrder(_)
VerdictInOrder(order) ==
  IF order = <<>> THEN FALSE
  ELSE IF CodeAt(order[1]).kind = "throw" THEN FALSE
  ELSE IF Str(CodeAt(order[1]).value) = call.userInput THEN TRUE
  ELSE VerdictInOrder(Tail(order))
\* -w, ..., w
Ascending(w) == [i \in 1..(2 * w + 1) |-> i - w - 1]
\* Orders of the offsets -w..w: each offset first and the others ascending,
\* and the descending order. The result of an order depends only on which
\* matching or failing offset comes first, so these orders produce every
\* result an order can produce.
Orders(w) ==
  {<<d>> \o SelectSeq(Ascending(w), LAMBDA x : x # d) : d \in (0 - w)..w}
  \cup {[i \in 1..(2 * w + 1) |-> w + 1 - i]}
\* A verifyTOTP call that has completed its loop (validation passed).
LoopCompleted ==
  /\ Done("verifyTOTP")
  /\ VerifyRejects(call.secretBase32, call.userInput, call.period, call.digits) = NoErr
  /\ NonNegativeInteger(call.window)

OrderFreeWithoutFailure ==
  (LoopCompleted /\ \A d \in (0 - call.window.v)..call.window.v : CodeAt(d).kind = "return")
  => \A order \in Orders(call.window.v) : VerdictInOrder(order) = verdict.value

\* ------------------------------------------- the two step computations
\* A step value that may be a half-integer: n + 0.5 when half.
StepValue(n, half) == [n |-> n, half |-> half]
\* period * 1000 for a period that is an integer or an integer plus 0.5.
PeriodMs(period) == period.v * 1000 + (IF period.half THEN 500 ELSE 0)
\* t * period * 1000, for t an integer or an integer plus 0.5.
OffsetMs(t_, period) ==
  t_.v * PeriodMs(period) + (IF t_.half THEN PeriodMs(period) \div 2 ELSE 0)

\* Faulty variant: the quotient is rounded up.
EarlierStepRoundedUp(currentTime_, t_, period_) ==
  StepValue(NumAdd(FloorDiv(NumAdd(currentTime_, OffsetMs(t_, period_)),
                            PeriodMs(period_)), 1), FALSE)
\* Earlier variant: T = Math.floor((currentTime + t * period * 1000) / (period * 1000))
EarlierStep(currentTime_, t_, period_) ==
  StepValue(FloorDiv(NumAdd(currentTime_, OffsetMs(t_, period_)), PeriodMs(period_)),
            FALSE)
\* Current variant: currentT = Math.floor(currentTime / (period * 1000)); T = currentT + t
CurrentStep(currentTime_, t_, period_) ==
  StepValue(NumAdd(FloorDiv(currentTime_, PeriodMs(period_)), t_.v), t_.half)

\* Offsets t = -window + i of the loop, for integer and half-integer windows.
StepOffsets ==
  {Num(v) : v \in (0 - MaxWindow)..MaxWindow}
  \cup {Frac(v) : v \in (0 - MaxWindow)..(MaxWindow - 1)}
StepPeriods == {Num(DefaultPeriod), Num(60), Frac(0), Frac(1)}

InitSteps ==
  /\ TotpIdle(Sha1Len)
  /\ TruncIdle
  /\ ProcsIdle
  /\ KVIdle
  /\ HttpIdle
  /\ stepIn \in [currentTime : {Clocks[i] : i \in 1..Len(Clocks)},
                 period : StepPeriods, t : StepOffsets]
  /\ stepOut = <<>>

ComputeSteps ==
  /\ stepOut = <<>>
  /\ stepOut' = [current |-> CurrentStep(stepIn.currentTime, stepIn.t, stepIn.period),
                 earlier |-> EarlierStep(stepIn.currentTime, stepIn.t, stepIn.period)]
  /\ UNCHANGED <<stepIn, totpVars, truncVars, procs, kv, http>>

NextSteps == ComputeSteps
SpecSteps == InitSteps /\ [][NextSteps]_vars

\* C15: the step the earlier variant computes for an offset is not always the
\* step the current variant computes: the two differ for every offset that is
\* not an integer (the earlier variant floors after adding the offset, the
\* current one before), and are equal for every integer offset.
C15_VariantsDiffer ==
  stepOut # <<>>
  => /\ stepIn.t.half => stepOut.earlier # stepOut.current
     /\ ~stepIn.t.half => stepOut.earlier = stepOut.current

\* Offset -0.5 (window 0.5) 29 s into a 30 s step: the earlier variant checks
\* the current step, the current variant the step before it (plus a half).
C15_Witness ==
  /\ stepOut # <<>>
  /\ stepIn = [currentTime |-> Clocks[2], period |-> Num(DefaultPeriod), t |-> Frac(-1)]
  /\ stepOut.earlier = StepValue(FloorDiv(Clocks[2], 30000), FALSE)
  /\ stepOut.current = StepValue(NumAdd(FloorDiv(Clocks[2], 30000), -1), TRUE)

\* ------------------------------------- concurrent generateTOTPWithT calls
\* Arguments of the concurrent calls.
ProcArgs ==
  {[secretBase32 |-> x[1], T |-> x[2], period |-> Num(DefaultPeriod), digits |-> x[3]] :
     x \in {<<Str(Chars1), Fin(Zero64), Num(DefaultDigits)>>,
            <<Str(Chars1), Fin(<<0, 0, 0, 0, 0, 0, 0, 1>>), Num(DefaultDigits)>>,
            <<Str(Chars1), Fin(<<0, 0, 0, 0, 0, 0, 0, 1>>), Num(8)>>,
            <<Str(Chars2), Fin(<<0, 0, 0, 0, 0, 0, 0, 1>>), Num(DefaultDigits)>>,
            <<Str(<<"A", "=">>), Fin(Zero64), Num(DefaultDigits)>>,
            <<Str(<<"J", "B", "!", "W">>), Fin(Zero64), Num(DefaultDigits)>>,
            <<Str(Chars1), NaN, Num(DefaultDigits)>>}}

\* Faulty variant: the locals live in variables shared by all calls (those
\* of slot 1).
LocalOfFirst(p) == procs[1]
\* The local variables of the call in slot p.
Local(p) == procs[p]

\* What the isolated call returns.
Isolated(args) ==
  generateTOTPWithT(args.secretBase32, args.T, args.period, args.digits, signLen)

\* The call starts and runs up to `await crypto.subtle.importKey(...)`:
\* validation, decoding and the encoding of T; a throw ends it at once.
ProcStart(p) ==
  /\ procs[p].pc = "idle"
  /\ \E args \in ProcArgs :
       LET tried == WithTTry(args.secretBase32, args.T, args.period, args.digits, signLen)
       IN procs' = [procs EXCEPT ![p] =
            IF tried.TBytes = <<>>
            THEN [IdleProc EXCEPT !.pc = "done", !.args = args,
                                  !.result = CatchAndRethrow(tried)]
            ELSE [IdleProc EXCEPT !.pc = "importKey", !.args = args,
                                  !.key = base32Decode(args.secretBase32.s).bytes,
                                  !.TBytes = EncodeT(args.T)]]
  /\ UNCHANGED <<totpVars, truncVars, stepVars, kv, http>>

\* importKey settles: a zero-length key is rejected, generateHMAC logs and
\* rethrows, generateTOTPWithT catches and rethrows.
ProcImportKey(p) ==
  /\ procs[p].pc = "importKey"
  /\ LET hmac == generateHMAC(Local(p).TBytes, Local(p).key, "SHA-1", signLen)
     IN procs' = [procs EXCEPT ![p] =
          IF hmac.kind = "throw"
          THEN [@ EXCEPT !.pc = "done",
                         !.result = CatchAndRethrow(
                            Throws(hmac.error, hmac.logged, Local(p).TBytes, <<>>, {}))]
          ELSE [@ EXCEPT !.pc = "sign"]]
  /\ UNCHANGED <<totpVars, truncVars, stepVars, kv, http>>

\* sign settles: hmacArray = new Uint8Array(signature)
ProcSign(p) ==
  /\ procs[p].pc = "sign"
  /\ procs' = [procs EXCEPT ![p] =
       [@ EXCEPT !.pc = "resume",
                 !.hmacArray = subtleSign(Local(p).key, Local(p).TBytes, signLen)]]
  /\ UNCHANGED <<totpVars, truncVars, stepVars, kv, http>>

\* generateTOTPWithT resumes after `await hmacSha1(key, TBytes)`: truncation
\* and formatting.
ProcResume(p) ==
  /\ procs[p].pc = "resume"
  /\ LET hmacArray == Local(p).hmacArray
         tried == IF ~OffsetInRange(hmacArray)
                  THEN Throws(TooSmall, <<>>, Local(p).TBytes, hmacArray,
                              TruncReads(hmacArray))
                  ELSE Outcome("return", otpOf(hmacArray, Local(p).args.digits), NoErr,
                               <<>>, Local(p).TBytes, hmacArray, TruncReads(hmacArray))
     IN procs' = [procs EXCEPT ![p] =
          [@ EXCEPT !.pc = "done", !.result = CatchAndRethrow(tried)]]
  /\ UNCHANGED <<totpVars, truncVars, stepVars, kv, http>>

\* The caller takes the result; the slot is free for the next call.
ProcFinish(p) ==
  /\ procs[p].pc = "done"
  /\ procs' = [procs EXCEPT ![p] = IdleProc]
  /\ UNCHANGED <<totpVars, truncVars, stepVars, kv, http>>

InitProcs == TotpIdle(Sha1Len) /\ OthersIdle
NextProcs ==
  \E p \in 1..NumProcs :
    \/ ProcStart(p)
    \/ ProcImportKey(p)
    \/ ProcSign(p)
    \/ ProcResume(p)
    \/ ProcFinish(p)
SpecProcs == InitProcs /\ [][NextProcs]_vars

\* Every completed call has the result of the isolated call.
ResultsAsIsolated ==
  \A p \in 1..NumProcs :
    procs[p].pc = "done" => procs[p].result = Isolated(procs[p].args)

\* C12: a generateTOTPWithT call returns what the isolated call with the same
\* arguments returns, however its await points interleave with other calls
\* and however often it is repeated, and a step of one call changes nothing
\* of another call.
C12_PureUnderConcurrency ==
  /\ []ResultsAsIsolated
  /\ [][\A p \in 1..NumProcs, q \in 1..NumProcs :
          (p # q /\ procs'[p] # procs[p]) => procs'[q] = procs[q]]_vars

\* Slot 2 completed with a code while slot 1, started with another secret and
\* another step, is suspended between importKey and sign.
C12_Witness ==
  /\ procs[2].pc = "done"
  /\ procs[2].result.kind = "return"
  /\ procs[1].pc = "sign"
  /\ procs[1].args.secretBase32 # procs[2].args.secretBase32
  /\ procs[1].TBytes # procs[2].TBytes

\* ---------------------------------------------------------------- getKV
\* JavaScript values getKV handles: strings (v is the sequence of their
\* characters), null, and values of other types.
JsString(v) == [type |-> "string", v |-> v]
JsNull == [type |-> "null", v |-> <<>>]
JsObject == [type |-> "object", v |-> <<>>]
\* A thrown value: an Error with its message (a sequence of fragments), or a
\* value that is no Error.
JsError(message) == [isError |-> TRUE, message |-> message]
NotAnError(message) == [isError |-> FALSE, message |-> message]
\* message.includes(fragment)
Includes(message, fragment) == \E i \in 1..Len(message) : message[i] = fragment

InvalidKey == JsError(<<"Invalid key: Key must be a non-empty string">>)
TimedOut == JsError(<<"KV operation ", "timed out">>)
FallbackSecret == JsString(Chars1)
Returns(value) == [kind |-> "return", value |-> value]
ThrowsValue(error) == [kind |-> "throw", value |-> error]

\* !key || typeof key !== 'string'
KeyRejected(key) == key.type # "string" \/ key.v = <<>>

\* Faulty variant: a failed read falls back to the hardcoded secret.
OnReadFailureFallback(kvError) == Returns(FallbackSecret)
\* Faulty variant: a failed read always yields null.
OnReadFailureNull(kvError) == Returns(JsNull)
\* catch (kvError) of the inner try, followed by the outer catch: an Error
\* whose message includes 'timed out' is thrown on, anything else gives null.
OnReadFailure(kvError) ==
  IF kvError.isError /\ Includes(kvError.message, "timed out")
  THEN ThrowsValue(kvError)
  ELSE Returns(JsNull)
\* What the inner catch logs.
LoggedOnReadFailure(kvError) ==
  IF kvError.isError /\ Includes(kvError.message, "timed out")
  THEN <<"KV operation timed out for key">>
  ELSE <<"Error accessing KV for key">>
\* return typeof result === 'string' ? result : null
OnReadResult(value) == IF value.type = "string" THEN Returns(value) ELSE Returns(JsNull)

\* Faulty variant: the race takes the outcome of whichever promise settles last.
SettleRaceAlways(race, state, value) ==
  IF race.state = "none" THEN race ELSE Promise(state, value)
\* Promise.race: the first input promise to settle settles the race.
SettleRace(race, state, value) ==
  IF race.state = "pending" THEN Promise(state, value) ELSE race

\* Inputs: keys, the state of the env.test binding ("broken": a value that
\* is truthy but whose get throws), and what a KV read can settle with.
TotpDemo == JsString(<<"t", "o", "t", "p", "-", "d", "e", "m", "o">>)
Keys == {TotpDemo, JsString(<<"k">>), JsString(<<>>), JsObject}
Bindings == {"present", "missing", "broken"}
GetThrows == JsError(<<"env.test.get is not a function">>)
ReadOutcomes ==
  {Promise("fulfilled", JsString(Chars1)),
   Promise("fulfilled", JsString(Chars2)),
   Promise("fulfilled", JsString(<<"J", "B", "!", "W">>)),
   Promise("fulfilled", JsString(<<>>)),
   Promise("fulfilled", JsNull),
   Promise("fulfilled", JsObject),
   Promise("rejected", JsError(<<"KV GET failed: 500 Internal Server Error">>)),
   Promise("rejected", JsError(<<"KV GET failed: upstream request ", "timed out">>)),
   Promise("rejected", NotAnError(<<"request ", "timed out">>))}

\* getKV(key) up to its await, or to its end when it does not get there:
\* the state of the call after it.
GetKVUpToAwait(key, binding) ==
  IF KeyRejected(key)
  THEN [IdleKV EXCEPT !.pc = "done", !.key = key, !.binding = binding,
                      !.outcome = ThrowsValue(InvalidKey)]
  ELSE IF binding = "missing"
  THEN [IdleKV EXCEPT !.pc = "done", !.key = key, !.binding = binding,
                      !.outcome = Returns(FallbackSecret),
                      !.logged = <<"KV namespace does not exist, using fallback secret">>]
  ELSE IF binding = "broken"
  THEN [IdleKV EXCEPT !.pc = "done", !.key = key, !.binding = binding,
                      !.timer = "armed",
                      !.read = Promise("threw", GetThrows),
                      !.outcome = OnReadFailure(GetThrows),
                      !.logged = LoggedOnReadFailure(GetThrows)]
  ELSE [IdleKV EXCEPT !.pc = "await", !.key = key, !.binding = binding,
                      !.timer = "armed", !.read = Pending, !.race = Pending]

\* A call of getKV.
GetKVCall ==
  /\ kv.pc = "idle"
  /\ \E key \in Keys, binding \in Bindings : kv' = GetKVUpToAwait(key, binding)
  /\ UNCHANGED <<totpVars, truncVars, stepVars, procs, http>>

\* env.test.get(key) settles.
KVReadSettles ==
  /\ kv.read.state = "pending"
  /\ \E r \in ReadOutcomes :
       kv' = [kv EXCEPT !.read = r, !.race = SettleRace(kv.race, r.state, r.value)]
  /\ UNCHANGED <<totpVars, truncVars, stepVars, procs, http>>

\* setTimeout(() => reject(new Error('KV operation timed out')), 5000) fires.
TimerFires ==
  /\ kv.timer = "armed"
  /\ kv' = [kv EXCEPT !.timer = "fired",
                      !.race = SettleRace(kv.race, "rejected", TimedOut),
                      !.unhandled = (kv.race.state = "none")]
  /\ UNCHANGED <<totpVars, truncVars, stepVars, procs, http>>

\* The race has settled and getKV resumes after its await.
GetKVResume ==
  /\ kv.pc = "await"
  /\ kv.race.state \in {"fulfilled", "rejected"}
  /\ kv' = [kv EXCEPT
       !.pc = "done",
       !.outcome = IF kv.race.state = "fulfilled" THEN OnReadResult(kv.race.value)
                   ELSE OnReadFailure(kv.race.value),
       !.logged = IF kv.race.state = "fulfilled" THEN <<>>
                  ELSE LoggedOnReadFailure(kv.race.value)]
  /\ UNCHANGED <<totpVars, truncVars, stepVars, procs, http>>

\* The caller has the result, and nothing of the call is still pending.
GetKVReturn ==
  /\ kv.pc = "done"
  /\ kv.timer # "armed"
  /\ kv.read.state # "pending"
  /\ kv' = IdleKV
  /\ UNCHANGED <<totpVars, truncVars, stepVars, procs, http>>

InitKV == TotpIdle(Sha1Len) /\ OthersIdle
NextKV ==
  \/ GetKVCall
  \/ KVReadSettles
  \/ TimerFires
  \/ GetKVResume
  \/ GetKVReturn
SpecKV == InitKV /\ [][NextKV]_vars
\* The timer fires and a settled race resumes the call; the KV read itself
\* need not ever settle.
FairSpecKV == SpecKV /\ WF_vars(TimerFires) /\ WF_vars(GetKVResume)

\* What made the read fail, if it did: the value env.test.get threw, or the
\* reason the race was rejected with.
ReadFailure == IF kv.read.state = "threw" THEN kv.read.value ELSE kv.race.value
ReadFailed == kv.read.state = "threw" \/ kv.race.state = "rejected"
\* The timer settled the race before the KV read did.
TimerWonRace == kv.race = Promise("rejected", TimedOut)
KVFinished == kv.pc = "done" /\ ~KeyRejected(kv.key)

\* C17 as stated: whenever the key store is unavailable (binding missing,
\* read failed, or read timed out) getKV returns the hardcoded secret.
C17_FallbackWhenUnavailable ==
  (KVFinished /\ (kv.binding = "missing" \/ ReadFailed))
    => kv.outcome = Returns(FallbackSecret)

\* C17 amended: getKV returns the hardcoded secret exactly when the binding
\* is missing (or the secret is what KV stores); a read that loses the race
\* against the timer makes getKV throw the timeout error, and a failed read
\* makes it return null or throw the read's own 'timed out' error.
C17_FallbackOnlyWithoutBinding ==
  KVFinished =>
    /\ kv.binding = "missing" => kv.outcome = Returns(FallbackSecret)
    /\ kv.outcome = Returns(FallbackSecret)
         => (kv.binding = "missing" \/ kv.race = Promise("fulfilled", FallbackSecret))
    /\ (kv.binding # "missing" /\ TimerWonRace) => kv.outcome = ThrowsValue(TimedOut)
    /\ (kv.binding # "missing" /\ ReadFailed /\ ~TimerWonRace)
         => kv.outcome \in {Returns(JsNull), ThrowsValue(ReadFailure)}
C17_Witness ==
  /\ KVFinished
  /\ kv.binding = "present"
  /\ kv.race.state = "rejected"
  /\ ~TimerWonRace
  /\ kv.outcome = Returns(JsNull)

C20_AlwaysSettles ==
  /\ (kv.pc = "await") ~> (kv.pc = "done")
  /\ [][(kv.timer = "armed" /\ kv'.timer = "fired" /\ kv.race.state \in {"fulfilled", "rejected"})
          => /\ kv'.race = kv.race
             /\ kv'.outcome = kv.outcome
             /\ kv'.pc = kv.pc
             /\ ~kv'.unhandled]_vars
C20_Witness ==
  /\ kv.pc = "done"
  /\ kv.timer = "fired"
  /\ kv.race.state = "fulfilled"
  /\ kv.outcome = OnReadResult(kv.read.value)

\* ------------------------------------------------------------ the routes
\* verifyTOTP as a function of its arguments and of what Date.now() returns,
\* for a finite window: the loop over t from -window to window.
RECURSIVE VerifyLoop(_, _, _, _, _, _, _, _)
VerifyLoop(secretBase32, userInput, period, digits, window, currentT_, t_, signLen_) ==
  IF ~LoopCond(t_, window) THEN FALSE
  ELSE LET expectedOTP == generateTOTPWithT(secretBase32, PlusOffset(currentT_, t_),
                                            period, digits, signLen_)
       IN IF expectedOTP.kind = "throw" THEN FALSE
          ELSE IF expectedOTP.value = userInput.s THEN TRUE
          ELSE VerifyLoop(secretBase32, userInput, period, digits, window,
                          currentT_, Increment(t_), signLen_)
verifyTOTP(secretBase32, userInput, period, digits, window, dateNow, signLen_) ==
  IF VerifyRejects(secretBase32, userInput, period, digits) # NoErr THEN FALSE
  ELSE VerifyLoop(secretBase32, userInput, period, digits, window,
                  StepAt(dateNow, period), Negate(window), signLen_)

JsUndefined == [type |-> "undefined", v |-> <<>>]
JsNumber == [type |-> "number", v |-> <<>>]
Body(json, opt) == [json |-> json, opt |-> opt]
Respond(status, body) == [status |-> status, body |-> body]
VerifyRoute == "/totp/verify"
GenerateRoute == "/totp/generate"
Routes == {VerifyRoute, GenerateRoute}

\* Request bodies: text that is no JSON, the JSON value null, and objects
\* whose opt is absent, a number, a string that is no 6-digit code, a code
\* that matches no step, or the code of a step around the first clock value
\* for the first secret.
Opts ==
  {JsUndefined, JsNumber, JsString(<<"1", "2", "3", "4", "5", "a">>),
   JsString(<<"0", "0", "0", "0", "0", "0">>)}
  \cup {JsString(c.s) :
          c \in CandidateCodes(Str(Chars1), Num(DefaultPeriod), Num(DefaultDigits))}
Bodies ==
  {Body("malformed", JsUndefined), Body("null", JsUndefined)}
  \cup {Body("object", opt) : opt \in Opts}

\* What reading { opt } from the body throws, for a body that is no object.
ParseError(body) == IF body.json = "malformed" THEN "SyntaxError" ELSE "TypeError"
\* The catch of a route: 400 for a SyntaxError, 500 for anything else.
Caught(error) ==
  IF error = "SyntaxError" THEN Respond(400, <<"error", "Invalid JSON format">>)
  ELSE Respond(500, <<"error", "Server error">>)
\* !secret || typeof secret !== 'string'
SecretMissing(secret) == secret.type # "string" \/ secret.v = <<>>
\* !opt || typeof opt !== 'string' || !/^\d{6}$/.test(opt)
OtpFormatRejected(opt) ==
  \/ opt.type # "string"
  \/ opt.v = <<>>
  \/ ~(Len(opt.v) = 6 /\ \A i \in 1..Len(opt.v) : opt.v[i] \in DecimalDigits)

\* The route calls verifyTOTP or generateTOTP, which read the clock.
ReadsClock(route, body, got) ==
  /\ got.kind = "return"
  /\ ~SecretMissing(got.value)
  /\ route = VerifyRoute => ~OtpFormatRejected(body.opt)

\* The response of a route once getKV("totp-demo") has settled with `got`.
RouteResponse(route, body, got, dateNow) ==
  IF got.kind = "throw" THEN Caught("Error")
  ELSE IF SecretMissing(got.value)
  THEN IF route = VerifyRoute
       THEN Respond(500, <<"error", "Secret not configured">>)
       ELSE Respond(400, <<"error", "Invalid secret">>)
  ELSE IF route = VerifyRoute
  THEN IF OtpFormatRejected(body.opt)
       THEN Respond(400, <<"error", "Invalid OTP format: must be a 6-digit number">>)
       ELSE Respond(200, <<"isValid",
                           verifyTOTP(Str(got.value.v), Str(body.opt.v), Num(DefaultPeriod),
                                      Num(DefaultDigits), Num(DefaultWindow), dateNow, Sha1Len)>>)
  ELSE LET otp == generateTOTP(Str(got.value.v), Num(DefaultPeriod), Num(DefaultDigits),
                               dateNow, Sha1Len)
       IN IF otp.kind = "throw"
          THEN Respond(500, <<"error", "Failed to generate TOTP">>)
          ELSE Respond(200, <<"otp", otp.value>>)

\* A request arrives: /totp/verify reads { opt } from the body, and both
\* routes call getKV("totp-demo") and wait for it.
HttpReceive ==
  /\ http.pc = "idle"
  /\ kv.pc = "idle"
  /\ \E route \in Routes, body \in Bodies, binding \in Bindings :
       IF route = VerifyRoute /\ body.json # "object"
       THEN /\ http' = [pc |-> "responded", route |-> route, body |-> body, now |-> 0,
                        response |-> Caught(ParseError(body))]
            /\ kv' = kv
       ELSE /\ http' = [pc |-> "awaitKV", route |-> route, body |-> body, now |-> 0,
                        response |-> NoResponse]
            /\ kv' = GetKVUpToAwait(TotpDemo, binding)
  /\ UNCHANGED <<totpVars, truncVars, stepVars, procs>>

\* getKV has settled; the route goes on to its response.
HttpRespond ==
  /\ http.pc = "awaitKV"
  /\ kv.pc = "done"
  /\ \E c \in 1..Len(Clocks) :
       http' = [http EXCEPT
         !.pc = "responded",
         !.now = IF ReadsClock(http.route, http.body, kv.outcome) THEN c ELSE 0,
         !.response = RouteResponse(http.route, http.body, kv.outcome, Clocks[c])]
  /\ UNCHANGED <<totpVars, truncVars, stepVars, procs, kv>>

\* The response is sent and nothing of the request is still pending.
HttpFinish ==
  /\ http.pc = "responded"
  /\ kv.timer # "armed"
  /\ kv.read.state # "pending"
  /\ http' = IdleHttp
  /\ kv' = IdleKV
  /\ UNCHANGED <<totpVars, truncVars, stepVars, procs>>

InitHttp == TotpIdle(Sha1Len) /\ OthersIdle
NextHttp ==
  \/ HttpReceive
  \/ KVReadSettles
  \/ TimerFires
  \/ GetKVResume
  \/ HttpRespond
  \/ HttpFinish
SpecHttp == InitHttp /\ [][NextHttp]_vars

\* The request carries client input that fails validation.
ClientInputInvalid ==
  /\ http.route = VerifyRoute
  /\ (http.body.json # "object" \/ OtpFormatRejected(http.body.opt))
\* The route called generateTOTP or verifyTOTP and code generation threw.
GenerationFailed ==
  /\ http.now # 0
  /\ generateTOTP(Str(kv.outcome.value.v), Num(DefaultPeriod), Num(DefaultDigits),
                  Clocks[http.now], Sha1Len).kind = "throw"
\* The request met an internal failure: getKV threw (KV timeout), no secret
\* is configured, or code generation failed.
InternalFailure ==
  /\ kv.pc = "done"
  /\ \/ kv.outcome.kind = "throw"
     \/ kv.outcome.kind = "return" /\ SecretMissing(kv.outcome.value)
     \/ GenerationFailed

\* C19: a response to a request that met an internal failure has a 5xx
\* status, and a response to a request whose client input fails validation
\* (and that met no internal failure) has a 4xx status.
C19_ErrorMapping ==
  http.pc = "responded" =>
    /\ InternalFailure => http.response.status \in 500..599
    /\ (ClientInputInvalid /\ ~InternalFailure) => http.response.status \in 400..499

====
